---- MODULE Spec2Model ----
(***************************************************************************)
(* Model of the Telegram audio bot (src/bot.py).                           *)
(*                                                                         *)
(*   SpecAudio  - handle_audio: download, the three-tier delivery ladder   *)
(*                (128k, 64k mono, split in two), the transcription and    *)
(*                summary stage and the request-level error handler.       *)
(*   SpecChirp  - transcribe_with_chirp: 55 s windows, one recognizer call *)
(*                per window, [MM:SS] markers every 120 s.                 *)
(*                                                                         *)
(* External collaborators (transport, encoder, recognizer, language model) *)
(* are nondeterministic: every call either returns or raises.              *)
(***************************************************************************)
EXTENDS Integers, Sequences, FiniteSets, TLC

VARIABLES
    \* ---- handle_audio ----
    pc,                     \* position in handle_audio
    has_audio,              \* audio_file is not None (bot.py:303-316)
    duration_ms,            \* len(audio)
    gemini_key,             \* os.getenv('GEMINI_API_KEY') is set
    chirp_creds,            \* os.getenv('GOOGLE_CLOUD_CREDENTIALS') is set
    status_message,         \* "none" | "live" | "deleted"
    transcription_status,   \* "none" | "live" | "deleted"
    summary_status,         \* "none" | "live" | "deleted"
    disk,                   \* temp_dir: file name -> NoFile or [lo, hi, size]
    handed,                 \* reply_document calls, in order
    msgLog,                 \* edit/delete calls on status messages, in order
    texts,                  \* send_long_text deliveries, in order
    transcription_mp3_path, \* "none" or a file name
    mp3_sent,
    transInput,             \* what the transcriber was given: NoFile or a file
    backend,                \* "none" | "gemini" | "chirp"
    tier3,                  \* the ladder reached the split tier
    requestError,           \* the handler at bot.py:508 ran
    temp_dir,               \* "none" | "exists" | "removed" (bot.py:321)
    original_filename,      \* the sender's name of the file (bot.py:301-312)
    download_error,         \* what the download raised, "none" if nothing
    \* ---- transcribe_with_chirp ----
    cpc,                    \* position in transcribe_with_chirp; "rejected": raised
                            \* before the loop, "raised": raised by a window's export
    audio_len,              \* len(audio) of the file being transcribed, ms
    chunks,                 \* the windows, each [lo, hi) in ms
    idx,                    \* loop index
    all_lines,
    last_timestamp_seconds,
    tmp_exists,             \* the window's NamedTemporaryFile is on disk
    calls,                  \* per window: recognizer calls made
    outcomes,               \* per window: "fail" or the response received
    inflight,               \* recognizer calls in flight
    responds,               \* the call in flight will return or raise
    result,                 \* the value returned
    \* ---- send_long_text ----
    spc,                    \* position in send_long_text
    header,                 \* characters, as a sequence
    body,
    remaining,
    part,
    sent,                   \* the texts given to message.reply_text, in order
    \* ---- summarize_with_gemini ----
    mpc,                    \* position in summarize_with_gemini
    api_key,                \* os.getenv('GEMINI_API_KEY') is set
    model_idx,              \* index of model_name in candidate_models
    last_error,
    tried,                  \* generate_content calls, in order
    summary,                \* what the call returned or raised
    \* ---- transcribe_with_gemini_files ----
    gpc,                    \* position in transcribe_with_gemini_files
    gem_key,                \* os.getenv('GEMINI_API_KEY') is set
    audio_file,             \* state.name of the uploaded file, "none" before
    elapsed,                \* time.time() - start, in seconds
    polls,                  \* genai.get_file calls made
    gem_idx,                \* index of model_name in candidate_models
    transcription,          \* None ("none") or the text
    gem_last_error,
    delete_requested,       \* genai.delete_file was called
    gem_result              \* what the call returned or raised

audioVars == <<pc, has_audio, duration_ms, gemini_key, chirp_creds, status_message,
               transcription_status, summary_status, disk, handed, msgLog, texts,
               transcription_mp3_path, mp3_sent, transInput, backend, tier3,
               requestError, temp_dir, original_filename, download_error>>

chirpVars == <<cpc, audio_len, chunks, idx, all_lines, last_timestamp_seconds,
               tmp_exists, calls, outcomes, inflight, responds, result>>

sendVars == <<spc, header, body, remaining, part, sent>>

sumVars == <<mpc, api_key, model_idx, last_error, tried, summary>>

gemVars == <<gpc, gem_key, audio_file, elapsed, polls, gem_idx, transcription,
             gem_last_error, delete_requested, gem_result>>

vars == <<audioVars, chirpVars, sendVars, sumVars, gemVars>>

----------------------------------------------------------------------------
(* Bounds *)

\* handle_audio: recordings of BaseDurationMs..BaseDurationMs + MaxExtraMs
\* milliseconds (100 minutes: about 92 MB at 128k and 46 MB at 64k mono)
BaseDurationMs == 6000000
MaxExtraMs == 2

\* transcribe_with_chirp: recordings of up to MaxFullWindows full windows
\* plus a remainder
MaxFullWindows == 3

\* send_long_text: bodies of up to MaxSegments full segments plus one
\* character, under headers of up to MaxHeaderLen characters
MaxSegments == 2
MaxHeaderLen == 60

\* transcribe_with_gemini_files: a get_file call takes up to MaxDelaySecs
\* seconds, or as long as the whole processing timeout
MaxDelaySecs == 1

----------------------------------------------------------------------------
(* Program constants *)

CEILING_MB == 45
MiB == 1024 * 1024
CeilingBytes == CEILING_MB * MiB

\* os.path.getsize(p) / (1024 * 1024) > 45, on the byte count
TooLarge(size) == size > CeilingBytes

\* what the encoder may produce: sizes around the ceiling, and the
\* 30 MB / 60 MB of the spec's oracle
Sizes == {30 * MiB, CeilingBytes - 1, CeilingBytes, CeilingBytes + 1, 60 * MiB}

AudioDurations == BaseDurationMs..(BaseDurationMs + MaxExtraMs)

NoFile == [lo |-> -1, hi |-> -1, size |-> -1]
FileNames == {"input_audio", "output", "compressed", "part1", "part2"}

\* audio[a:b].export(path, ...): the file written on success
Encoded(lo, hi, size) == [lo |-> lo, hi |-> hi, size |-> size]

\* A failed export raises; the output file is either not there or was
\* created and left empty (bot.py:435 asks which).
FailedExports == {NoFile, Encoded(0, 0, 0)}

Exists(f) == f # NoFile

\* str(download_error), by what bot.py:332 looks for in it: "413", and
\* "too large" in any letter case
DownloadError(has413, hasTooLarge) ==
    [raised |-> TRUE, has413 |-> has413, too_large |-> hasTooLarge]
DownloadErrors == {DownloadError(a, b) : a, b \in BOOLEAN}
NoDownloadError == [raised |-> FALSE, has413 |-> FALSE, too_large |-> FALSE]

\* bot.py:306-312: for an audio or document message the name is the
\* sender's file_name, used as it comes; it may carry directory parts
OriginalFilenames == {"memo.ogg", "../memo.ogg"}

\* bot.py:326: input_path is temp_dir/input_audio. bot.py:345-347, 382,
\* 408-409: the other paths are os.path.join(temp_dir, <base_name>...), which
\* is inside temp_dir unless base_name leads out of it
InTempDir(f) == f = "input_audio" \/ original_filename = "memo.ogg"

\* the file f written during the request is still on disk: the directory's
\* removal takes the files inside it
OnDisk(f) == Exists(disk[f]) /\ (temp_dir # "removed" \/ ~InTempDir(f))

----------------------------------------------------------------------------
(* handle_audio, bot.py:295-513 *)

inputs == <<has_audio, duration_ms, gemini_key, chirp_creds, original_filename>>
ladder == <<disk, handed, transcription_mp3_path, mp3_sent, tier3>>
stage  == <<texts, transInput, backend>>

\* A transport call on a message handle returns or raises; on a message
\* that is not there (never sent, or deleted) it can only raise.
CallOutcomes(msg) == IF msg = "live" THEN BOOLEAN ELSE {FALSE}

Logged(handle, op, text, ok) ==
    Append(msgLog, [handle |-> handle, op |-> op, text |-> text, ok |-> ok])

\* message.reply_document(document=f, ...): one call, accepted or raised
Handed(path, caption, ok) ==
    Append(handed, [path |-> path, lo |-> disk[path].lo, hi |-> disk[path].hi,
                    size |-> disk[path].size, caption |-> caption, accepted |-> ok])

\* bot.py:321: with tempfile.TemporaryDirectory() as temp_dir. The directory
\* is made when the block is entered and removed when control leaves it: by
\* the return at 342, by falling off its end, or by an exception on its way
\* to the handler at 508.
TempDirAfter(next) ==
    IF next = "download" THEN "exists"
    ELSE IF next \in {"done", "except"} /\ temp_dir = "exists" THEN "removed"
    ELSE temp_dir

InitAudio ==
    /\ pc = "start"
    /\ has_audio \in BOOLEAN
    /\ duration_ms \in AudioDurations
    /\ gemini_key \in BOOLEAN
    /\ chirp_creds \in BOOLEAN
    /\ original_filename \in OriginalFilenames
    /\ status_message = "none"
    /\ transcription_status = "none"
    /\ summary_status = "none"
    /\ disk = [f \in FileNames |-> NoFile]
    /\ handed = <<>>
    /\ msgLog = <<>>
    /\ texts = <<>>
    /\ transcription_mp3_path = "none"
    /\ mp3_sent = FALSE
    /\ transInput = NoFile
    /\ backend = "none"
    /\ tier3 = FALSE
    /\ requestError = FALSE
    /\ temp_dir = "none"
    /\ download_error = NoDownloadError
    \* no transcribe_with_chirp call is modelled with the request
    /\ cpc = "idle" /\ audio_len = 0 /\ chunks = <<>> /\ idx = 0
    /\ all_lines = <<>> /\ last_timestamp_seconds = 0 /\ tmp_exists = FALSE
    /\ calls = <<>> /\ outcomes = <<>> /\ inflight = 0 /\ responds = TRUE
    /\ result = [kind |-> "none", lines |-> <<>>]
    \* nor a send_long_text or summarize_with_gemini call
    /\ spc = "idle" /\ header = <<>> /\ body = <<>> /\ remaining = <<>>
    /\ part = 0 /\ sent = <<>>
    /\ mpc = "idle" /\ api_key = FALSE /\ model_idx = 0 /\ last_error = "none"
    /\ tried = <<>> /\ summary = "none"
    /\ gpc = "idle" /\ gem_key = FALSE /\ audio_file = "none" /\ elapsed = 0
    /\ polls = 0 /\ gem_idx = 0 /\ transcription = "none"
    /\ gem_last_error = "none" /\ delete_requested = FALSE /\ gem_result = "none"

\* bot.py:315-318: no audio in the message, or the status message is sent
\* (outside the try: a raise here leaves the handler)
Start ==
    /\ pc = "start"
    /\ IF ~has_audio
         THEN pc' = "done" /\ UNCHANGED status_message
         ELSE \E ok \in BOOLEAN :
                IF ok THEN pc' = "download" /\ status_message' = "live"
                      ELSE pc' = "escaped" /\ UNCHANGED status_message
    /\ temp_dir' = TempDirAfter(pc')
    /\ UNCHANGED <<inputs, transcription_status, summary_status, msgLog, ladder,
                   stage, requestError, download_error,
                   chirpVars, sendVars, sumVars, gemVars>>

DownloadNotice413Only(e) == IF e.has413 THEN "too_large" ELSE "download_failed"

\* bot.py:332-341: the text the status message is edited to
DownloadNotice(e) ==
    IF e.has413 \/ e.too_large THEN "too_large" ELSE "download_failed"

\* bot.py:324-342
Download ==
    /\ pc = "download"
    /\ \/ /\ disk' = [disk EXCEPT !["input_audio"] = Encoded(0, duration_ms, 0)]
          /\ pc' = "load"
          /\ UNCHANGED <<msgLog, download_error>>
       \/ \E e \in DownloadErrors, ok \in CallOutcomes(status_message) :
            /\ download_error' = e
            /\ msgLog' = Logged("status", "edit", DownloadNotice(e), ok)
            /\ pc' = IF ok THEN "done" ELSE "except"
            /\ UNCHANGED disk
    /\ temp_dir' = TempDirAfter(pc')
    /\ UNCHANGED <<inputs, status_message, transcription_status, summary_status,
                   handed, transcription_mp3_path, mp3_sent, tier3, stage,
                   requestError, chirpVars, sendVars, sumVars, gemVars>>

\* bot.py:349-355
Load ==
    /\ pc = "load"
    /\ \E ok \in BOOLEAN : pc' = IF ok THEN "t1_export" ELSE "except"
    /\ temp_dir' = TempDirAfter(pc')
    /\ UNCHANGED <<inputs, status_message, transcription_status, summary_status,
                   msgLog, ladder, stage, requestError, download_error,
                   chirpVars, sendVars, sumVars, gemVars>>

\* bot.py:358-364: the 128k encode and the size check
Tier1Export ==
    /\ pc = "t1_export"
    /\ \/ \E size \in Sizes :
            /\ disk' = [disk EXCEPT !["output"] = Encoded(0, duration_ms, size)]
            /\ pc' = IF TooLarge(size) THEN "t2_edit" ELSE "t1_send"
       \/ \E left \in FailedExports :
            /\ disk' = [disk EXCEPT !["output"] = left]
            /\ pc' = "t2_edit"
    /\ temp_dir' = TempDirAfter(pc')
    /\ UNCHANGED <<inputs, status_message, transcription_status, summary_status,
                   msgLog, handed, transcription_mp3_path, mp3_sent, tier3, stage,
                   requestError, download_error,
                   chirpVars, sendVars, sumVars, gemVars>>

\* bot.py:366-371
Tier1Send ==
    /\ pc = "t1_send"
    /\ \E ok \in BOOLEAN :
         /\ handed' = Handed("output", "High Quality MP3 (128k)", ok)
         /\ pc' = IF ok THEN "t1_delete" ELSE "t2_edit"
    /\ temp_dir' = TempDirAfter(pc')
    /\ UNCHANGED <<inputs, status_message, transcription_status, summary_status,
                   msgLog, disk, transcription_mp3_path, mp3_sent, tier3, stage,
                   requestError, download_error,
                   chirpVars, sendVars, sumVars, gemVars>>

\* bot.py:372-375
Tier1Delete ==
    /\ pc = "t1_delete"
    /\ \E ok \in CallOutcomes(status_message) :
         /\ msgLog' = Logged("status", "delete", "", ok)
         /\ IF ok
              THEN /\ status_message' = "deleted"
                   /\ transcription_mp3_path' = "output"
                   /\ mp3_sent' = TRUE
                   /\ pc' = "transcribe"
              ELSE /\ pc' = "t2_edit"
                   /\ UNCHANGED <<status_message, transcription_mp3_path, mp3_sent>>
    /\ temp_dir' = TempDirAfter(pc')
    /\ UNCHANGED <<inputs, transcription_status, summary_status, disk, handed,
                   tier3, stage, requestError, download_error,
                   chirpVars, sendVars, sumVars, gemVars>>

\* bot.py:377-379
Tier2Edit ==
    /\ pc = "t2_edit"
    /\ \E ok \in CallOutcomes(status_message) :
         /\ msgLog' = Logged("status", "edit", "compressing", ok)
         /\ pc' = IF ok THEN "t2_export" ELSE "except"
    /\ temp_dir' = TempDirAfter(pc')
    /\ UNCHANGED <<inputs, status_message, transcription_status, summary_status,
                   ladder, stage, requestError, download_error,
                   chirpVars, sendVars, sumVars, gemVars>>

\* bot.py:382-386: the 64k mono encode; the size is measured, not compared
Tier2Export ==
    /\ pc = "t2_export"
    /\ \/ \E size \in Sizes :
            /\ disk' = [disk EXCEPT !["compressed"] = Encoded(0, duration_ms, size)]
            /\ pc' = "t2_send"
       \/ \E left \in FailedExports :
            /\ disk' = [disk EXCEPT !["compressed"] = left]
            /\ pc' = "t3_edit"
    /\ temp_dir' = TempDirAfter(pc')
    /\ UNCHANGED <<inputs, status_message, transcription_status, summary_status,
                   msgLog, handed, transcription_mp3_path, mp3_sent, tier3, stage,
                   requestError, download_error,
                   chirpVars, sendVars, sumVars, gemVars>>

\* bot.py:388-395
Tier2Send ==
    /\ pc = "t2_send"
    /\ \E ok \in BOOLEAN :
         /\ handed' = Handed("compressed", "Compressed MP3 (64k mono)", ok)
         /\ pc' = IF ok THEN "t2_delete" ELSE "t3_edit"
    /\ temp_dir' = TempDirAfter(pc')
    /\ UNCHANGED <<inputs, status_message, transcription_status, summary_status,
                   msgLog, disk, transcription_mp3_path, mp3_sent, tier3, stage,
                   requestError, download_error,
                   chirpVars, sendVars, sumVars, gemVars>>

\* bot.py:396-399
Tier2Delete ==
    /\ pc = "t2_delete"
    /\ \E ok \in CallOutcomes(status_message) :
         /\ msgLog' = Logged("status", "delete", "", ok)
         /\ IF ok
              THEN /\ status_message' = "deleted"
                   /\ transcription_mp3_path' = "compressed"
                   /\ mp3_sent' = TRUE
                   /\ pc' = "transcribe"
              ELSE /\ pc' = "t3_edit"
                   /\ UNCHANGED <<status_message, transcription_mp3_path, mp3_sent>>
    /\ temp_dir' = TempDirAfter(pc')
    /\ UNCHANGED <<inputs, transcription_status, summary_status, disk, handed,
                   tier3, stage, requestError, download_error,
                   chirpVars, sendVars, sumVars, gemVars>>

\* bot.py:401-403: the split tier is entered
Tier3Edit ==
    /\ pc = "t3_edit"
    /\ tier3' = TRUE
    /\ \E ok \in CallOutcomes(status_message) :
         /\ msgLog' = Logged("status", "edit", "splitting", ok)
         /\ pc' = IF ok THEN "t3_export1" ELSE "except"
    /\ temp_dir' = TempDirAfter(pc')
    /\ UNCHANGED <<inputs, status_message, transcription_status, summary_status,
                   disk, handed, transcription_mp3_path, mp3_sent, stage,
                   requestError, download_error,
                   chirpVars, sendVars, sumVars, gemVars>>

\* bot.py:405-406
half == duration_ms \div 2

\* bot.py:411-412: audio[:half]
Tier3Export1 ==
    /\ pc = "t3_export1"
    /\ \/ \E size \in Sizes :
            /\ disk' = [disk EXCEPT !["part1"] = Encoded(0, half, size)]
            /\ pc' = "t3_export2"
       \/ \E left \in FailedExports :
            /\ disk' = [disk EXCEPT !["part1"] = left]
            /\ pc' = "except"
    /\ temp_dir' = TempDirAfter(pc')
    /\ UNCHANGED <<inputs, status_message, transcription_status, summary_status,
                   msgLog, handed, transcription_mp3_path, mp3_sent, tier3, stage,
                   requestError, download_error,
                   chirpVars, sendVars, sumVars, gemVars>>

\* bot.py:413-417: audio[half:]
Tier3Export2 ==
    /\ pc = "t3_export2"
    /\ \/ \E size \in Sizes :
            /\ disk' = [disk EXCEPT !["part2"] = Encoded(half, duration_ms, size)]
            /\ pc' = "t3_send1"
       \/ \E left \in FailedExports :
            /\ disk' = [disk EXCEPT !["part2"] = left]
            /\ pc' = "except"
    /\ temp_dir' = TempDirAfter(pc')
    /\ UNCHANGED <<inputs, status_message, transcription_status, summary_status,
                   msgLog, handed, transcription_mp3_path, mp3_sent, tier3, stage,
                   requestError, download_error,
                   chirpVars, sendVars, sumVars, gemVars>>

\* bot.py:419-424
Tier3Send1 ==
    /\ pc = "t3_send1"
    /\ \E ok \in BOOLEAN :
         /\ handed' = Handed("part1", "Part 1/2", ok)
         /\ pc' = IF ok THEN "t3_send2" ELSE "except"
    /\ temp_dir' = TempDirAfter(pc')
    /\ UNCHANGED <<inputs, status_message, transcription_status, summary_status,
                   msgLog, disk, transcription_mp3_path, mp3_sent, tier3, stage,
                   requestError, download_error,
                   chirpVars, sendVars, sumVars, gemVars>>

\* bot.py:425-430
Tier3Send2 ==
    /\ pc = "t3_send2"
    /\ \E ok \in BOOLEAN :
         /\ handed' = Handed("part2", "Part 2/2", ok)
         /\ pc' = IF ok THEN "t3_delete" ELSE "except"
    /\ temp_dir' = TempDirAfter(pc')
    /\ UNCHANGED <<inputs, status_message, transcription_status, summary_status,
                   msgLog, disk, transcription_mp3_path, mp3_sent, tier3, stage,
                   requestError, download_error,
                   chirpVars, sendVars, sumVars, gemVars>>

\* bot.py:435-440: the file handed to the transcriber after a split
SplitTranscriptionPath ==
    IF Exists(disk["compressed"]) THEN "compressed" ELSE "part1"

\* bot.py:431-443
Tier3Delete ==
    /\ pc = "t3_delete"
    /\ \E ok \in CallOutcomes(status_message) :
         /\ msgLog' = Logged("status", "delete", "", ok)
         /\ IF ok
              THEN /\ status_message' = "deleted"
                   /\ transcription_mp3_path' = SplitTranscriptionPath
                   /\ mp3_sent' = TRUE
                   /\ pc' = "transcribe"
              ELSE /\ pc' = "except"
                   /\ UNCHANGED <<status_message, transcription_mp3_path, mp3_sent>>
    /\ temp_dir' = TempDirAfter(pc')
    /\ UNCHANGED <<inputs, transcription_status, summary_status, disk, handed,
                   tier3, stage, requestError, download_error,
                   chirpVars, sendVars, sumVars, gemVars>>

FallbackFirst == IF chirp_creds THEN "chirp" ELSE "gemini"

\* bot.py:450, 487: the primary backend whenever its key is set
SelectBackend == IF gemini_key THEN "gemini" ELSE "chirp"

\* bot.py:446-452, 487-492, 505-506: backend selection and the
\* transcription status message
TranscribeBegin ==
    /\ pc = "transcribe"
    /\ IF ~(mp3_sent /\ transcription_mp3_path # "none")
         THEN pc' = "done" /\ UNCHANGED <<transcription_status, backend>>
         ELSE IF gemini_key \/ chirp_creds
           THEN \E ok \in BOOLEAN :
                  IF ok
                    THEN /\ transcription_status' = "live"
                         /\ backend' = SelectBackend
                         /\ pc' = IF SelectBackend = "gemini" THEN "g_call" ELSE "c_call"
                    ELSE /\ pc' = "except"
                         /\ UNCHANGED <<transcription_status, backend>>
           ELSE pc' = "done" /\ UNCHANGED <<transcription_status, backend>>
    /\ temp_dir' = TempDirAfter(pc')
    /\ UNCHANGED <<inputs, status_message, summary_status, msgLog, ladder, texts,
                   transInput, requestError, download_error,
                   chirpVars, sendVars, sumVars, gemVars>>

\* bot.py:457: transcribe_with_gemini_files(transcription_mp3_path)
GeminiTranscribe ==
    /\ pc = "g_call"
    /\ transInput' = disk[transcription_mp3_path]
    /\ \E ok \in BOOLEAN : pc' = IF ok THEN "g_delete" ELSE "t_failed"
    /\ temp_dir' = TempDirAfter(pc')
    /\ UNCHANGED <<inputs, status_message, transcription_status, summary_status,
                   msgLog, ladder, texts, backend, requestError, download_error,
                   chirpVars, sendVars, sumVars, gemVars>>

\* bot.py:458
GeminiStatusDelete ==
    /\ pc = "g_delete"
    /\ \E ok \in CallOutcomes(transcription_status) :
         /\ msgLog' = Logged("transcription", "delete", "", ok)
         /\ transcription_status' = IF ok THEN "deleted" ELSE transcription_status
         /\ pc' = IF ok THEN "g_send" ELSE "t_failed"
    /\ temp_dir' = TempDirAfter(pc')
    /\ UNCHANGED <<inputs, status_message, summary_status, ladder, stage,
                   requestError, download_error,
                   chirpVars, sendVars, sumVars, gemVars>>

\* bot.py:460-461
GeminiSendTranscript ==
    /\ pc = "g_send"
    /\ \E ok \in BOOLEAN :
         /\ texts' = IF ok THEN Append(texts, "transcription") ELSE texts
         /\ pc' = IF ok THEN "s_status" ELSE "t_failed"
    /\ temp_dir' = TempDirAfter(pc')
    /\ UNCHANGED <<inputs, status_message, transcription_status, summary_status,
                   msgLog, ladder, transInput, backend, requestError, download_error,
                   chirpVars, sendVars, sumVars, gemVars>>

\* bot.py:464-466
SummaryBegin ==
    /\ pc = "s_status"
    /\ \E ok \in BOOLEAN :
         /\ summary_status' = IF ok THEN "live" ELSE summary_status
         /\ pc' = IF ok THEN "s_call" ELSE "t_failed"
    /\ temp_dir' = TempDirAfter(pc')
    /\ UNCHANGED <<inputs, status_message, transcription_status, msgLog, ladder,
                   stage, requestError, download_error,
                   chirpVars, sendVars, sumVars, gemVars>>

\* bot.py:468
Summarize ==
    /\ pc = "s_call"
    /\ \E ok \in BOOLEAN : pc' = IF ok THEN "s_delete" ELSE "s_failed"
    /\ temp_dir' = TempDirAfter(pc')
    /\ UNCHANGED <<inputs, status_message, transcription_status, summary_status,
                   msgLog, ladder, stage, requestError, download_error,
                   chirpVars, sendVars, sumVars, gemVars>>

\* bot.py:469
SummaryStatusDelete ==
    /\ pc = "s_delete"
    /\ \E ok \in CallOutcomes(summary_status) :
         /\ msgLog' = Logged("summary", "delete", "", ok)
         /\ summary_status' = IF ok THEN "deleted" ELSE summary_status
         /\ pc' = IF ok THEN "s_send" ELSE "s_failed"
    /\ temp_dir' = TempDirAfter(pc')
    /\ UNCHANGED <<inputs, status_message, transcription_status, ladder, stage,
                   requestError, download_error,
                   chirpVars, sendVars, sumVars, gemVars>>

\* bot.py:470-472
SendSummary ==
    /\ pc = "s_send"
    /\ \E ok \in BOOLEAN :
         /\ texts' = IF ok THEN Append(texts, "summary") ELSE texts
         /\ pc' = IF ok THEN "done" ELSE "s_failed"
    /\ temp_dir' = TempDirAfter(pc')
    /\ UNCHANGED <<inputs, status_message, transcription_status, summary_status,
                   msgLog, ladder, transInput, backend, requestError, download_error,
                   chirpVars, sendVars, sumVars, gemVars>>

\* bot.py:473-478: a raise of the edit reaches the handler at 480
SummaryFailed ==
    /\ pc = "s_failed"
    /\ \E ok \in CallOutcomes(summary_status) :
         /\ msgLog' = Logged("summary", "edit", "summary_failed", ok)
         /\ pc' = IF ok THEN "done" ELSE "t_failed"
    /\ temp_dir' = TempDirAfter(pc')
    /\ UNCHANGED <<inputs, status_message, transcription_status, summary_status,
                   ladder, stage, requestError, download_error,
                   chirpVars, sendVars, sumVars, gemVars>>

\* bot.py:494: transcribe_with_chirp(transcription_mp3_path)
ChirpTranscribe ==
    /\ pc = "c_call"
    /\ transInput' = disk[transcription_mp3_path]
    /\ \E ok \in BOOLEAN : pc' = IF ok THEN "c_delete" ELSE "t_failed"
    /\ temp_dir' = TempDirAfter(pc')
    /\ UNCHANGED <<inputs, status_message, transcription_status, summary_status,
                   msgLog, ladder, texts, backend, requestError, download_error,
                   chirpVars, sendVars, sumVars, gemVars>>

\* bot.py:495
ChirpStatusDelete ==
    /\ pc = "c_delete"
    /\ \E ok \in CallOutcomes(transcription_status) :
         /\ msgLog' = Logged("transcription", "delete", "", ok)
         /\ transcription_status' = IF ok THEN "deleted" ELSE transcription_status
         /\ pc' = IF ok THEN "c_send" ELSE "t_failed"
    /\ temp_dir' = TempDirAfter(pc')
    /\ UNCHANGED <<inputs, status_message, summary_status, ladder, stage,
                   requestError, download_error,
                   chirpVars, sendVars, sumVars, gemVars>>

\* bot.py:496-497
ChirpSendTranscript ==
    /\ pc = "c_send"
    /\ \E ok \in BOOLEAN :
         /\ texts' = IF ok THEN Append(texts, "transcription") ELSE texts
         /\ pc' = IF ok THEN "done" ELSE "t_failed"
    /\ temp_dir' = TempDirAfter(pc')
    /\ UNCHANGED <<inputs, status_message, transcription_status, summary_status,
                   msgLog, ladder, transInput, backend, requestError, download_error,
                   chirpVars, sendVars, sumVars, gemVars>>

\* bot.py:480-485 and 498-503: a raise of the edit reaches the handler at 508
TranscriptionFailed ==
    /\ pc = "t_failed"
    /\ \E ok \in CallOutcomes(transcription_status) :
         /\ msgLog' = Logged("transcription", "edit", "transcription_failed", ok)
         /\ pc' = IF ok THEN "done" ELSE "except"
    /\ temp_dir' = TempDirAfter(pc')
    /\ UNCHANGED <<inputs, status_message, transcription_status, summary_status,
                   ladder, stage, requestError, download_error,
                   chirpVars, sendVars, sumVars, gemVars>>

\* bot.py:508-513: the edit's own failure is swallowed
RequestFailed ==
    /\ pc = "except"
    /\ requestError' = TRUE
    /\ \E ok \in CallOutcomes(status_message) :
         msgLog' = Logged("status", "edit", "error", ok)
    /\ pc' = "done"
    /\ temp_dir' = TempDirAfter(pc')
    /\ UNCHANGED <<inputs, status_message, transcription_status, summary_status,
                   ladder, stage, download_error,
                   chirpVars, sendVars, sumVars, gemVars>>

NextAudio ==
    \/ Start \/ Download \/ Load
    \/ Tier1Export \/ Tier1Send \/ Tier1Delete
    \/ Tier2Edit \/ Tier2Export \/ Tier2Send \/ Tier2Delete
    \/ Tier3Edit \/ Tier3Export1 \/ Tier3Export2 \/ Tier3Send1 \/ Tier3Send2
    \/ Tier3Delete
    \/ TranscribeBegin
    \/ GeminiTranscribe \/ GeminiStatusDelete \/ GeminiSendTranscript
    \/ SummaryBegin \/ Summarize \/ SummaryStatusDelete \/ SendSummary
    \/ SummaryFailed
    \/ ChirpTranscribe \/ ChirpStatusDelete \/ ChirpSendTranscript
    \/ TranscriptionFailed \/ RequestFailed

----------------------------------------------------------------------------
(* transcribe_with_chirp, bot.py:118-224 *)

CHUNK_MS == 55 * 1000
Remainders == {0, 1, 20000, CHUNK_MS - 1}
ChirpDurations == {w * CHUNK_MS + r : w \in 0..MaxFullWindows, r \in Remainders}

Min(a, b) == IF a < b THEN a ELSE b

\* range(0, n, step), bot.py:160
RECURSIVE RangeFrom(_, _, _)
RangeFrom(i, n, step) ==
    IF i >= n THEN <<>> ELSE <<i>> \o RangeFrom(i + step, n, step)

SliceUnclamped(a, b, n) == [lo |-> a, hi |-> b]

\* audio[a:b] on a segment of n ms: the bounds are clamped to the segment
Slice(a, b, n) == [lo |-> Min(a, n), hi |-> Min(b, n)]

\* bot.py:160: chunks = [audio[i:i + CHUNK_MS] for i in range(0, len(audio), CHUNK_MS)]
Chunks(n) ==
    LET starts == RangeFrom(0, n, CHUNK_MS)
    IN  [k \in 1..Len(starts) |-> Slice(starts[k], starts[k] + CHUNK_MS, n)]

\* bot.py:168, for the zero-based loop index i
ChunkOffsetSecs(i) == i * 55

\* One recognizer result: whether it has an alternative, the best
\* alternative's transcript, and its words' start offsets (ms in the window).
Result(alt, transcript, words) ==
    [has_alt |-> alt, transcript |-> transcript, words |-> words]
NoAlternative == Result(FALSE, "", <<>>)
Blank         == Result(TRUE, "  ", <<>>)
Plain         == Result(TRUE, "speech", <<>>)
Timed(ms)     == Result(TRUE, "speech", <<ms>>)

\* The responses a recognizer call may return
Responses ==
    { <<>>, <<NoAlternative>>, <<Blank>>, <<Plain>>,
      <<Timed(0)>>, <<Timed(9999)>>, <<Timed(10000)>>,
      <<Timed(0), Timed(10000)>> }

StripNothing(t) == t

\* str.strip()
Strip(t) == IF t = "  " THEN "" ELSE t

\* The lines of all_lines; win (the window that produced the line) is
\* bookkeeping and not part of the text.
MarkerLine(mins, secs, win) == [kind |-> "marker", a |-> mins, b |-> secs, win |-> win]
TextLine(text, win)         == [kind |-> "text", a |-> 0, b |-> 0, win |-> win]
\* bot.py:194: f"[chunk {idx + 1} failed: {chunk_err}]"
FailedLine(i)               == [kind |-> "failed", a |-> i + 1, b |-> 0, win |-> i]

MarkerDueAlways(start_secs, last) == TRUE
MarkerDueEarly(start_secs, last) == start_secs - last >= 110

\* bot.py:214
MarkerDue(start_secs, last) == start_secs - last >= 120

\* bot.py:198-222: one result of a response, on <<all_lines, last_timestamp_seconds>>
ProcessResult(st, r, i) ==
    IF ~r.has_alt THEN st
    ELSE LET text == Strip(r.transcript) IN
      IF text = "" THEN st
      ELSE LET marked ==
                 IF r.words # <<>>
                   THEN LET word_secs  == r.words[1] \div 1000
                            start_secs == ChunkOffsetSecs(i) + word_secs
                        IN  IF MarkerDue(start_secs, st.last)
                              THEN [lines |-> Append(st.lines,
                                                MarkerLine(start_secs \div 60,
                                                           start_secs % 60, i)),
                                    last  |-> start_secs]
                              ELSE st
                   ELSE st
           IN  [lines |-> Append(marked.lines, TextLine(text, i)),
                last  |-> marked.last]

\* bot.py:197: for result in response.results
RECURSIVE ProcessResponse(_, _, _)
ProcessResponse(st, response, i) ==
    IF response = <<>> THEN st
    ELSE ProcessResponse(ProcessResult(st, Head(response), i), Tail(response), i)

DropFailure(lines, i) == lines
PrependFailure(lines, i) == <<FailedLine(i)>> \o lines

\* bot.py:192-195: the except branch of the recognizer call
AbsorbFailure(lines, i) == Append(lines, FailedLine(i))

Sentinel == [kind |-> "sentinel", lines |-> <<>>]

ChirpResultTextOnly(lines) ==
    IF \E k \in 1..Len(lines) : lines[k].kind = "text"
      THEN [kind |-> "transcript", lines |-> lines] ELSE Sentinel

\* bot.py:224
ChirpResult(lines) ==
    IF lines # <<>> THEN [kind |-> "transcript", lines |-> lines] ELSE Sentinel

NoResult == [kind |-> "none", lines |-> <<>>]

InitChirp ==
    /\ cpc = "start"
    /\ audio_len \in ChirpDurations
    /\ chunks = <<>>
    /\ idx = 0
    /\ all_lines = <<>>
    /\ last_timestamp_seconds = 0
    /\ tmp_exists = FALSE
    /\ calls = <<>>
    /\ outcomes = <<>>
    /\ inflight = 0
    /\ responds = TRUE
    /\ result = NoResult
    \* no handle_audio request is modelled with the call
    /\ pc = "idle" /\ has_audio = FALSE /\ duration_ms = 0
    /\ original_filename = "none" /\ download_error = NoDownloadError
    /\ gemini_key = FALSE /\ chirp_creds = FALSE
    /\ status_message = "none" /\ transcription_status = "none"
    /\ summary_status = "none" /\ disk = [f \in FileNames |-> NoFile]
    /\ handed = <<>> /\ msgLog = <<>> /\ texts = <<>>
    /\ transcription_mp3_path = "none" /\ mp3_sent = FALSE
    /\ transInput = NoFile /\ backend = "none" /\ tier3 = FALSE
    /\ requestError = FALSE /\ temp_dir = "none"
    \* nor a send_long_text or summarize_with_gemini call
    /\ spc = "idle" /\ header = <<>> /\ body = <<>> /\ remaining = <<>>
    /\ part = 0 /\ sent = <<>>
    /\ mpc = "idle" /\ api_key = FALSE /\ model_idx = 0 /\ last_error = "none"
    /\ tried = <<>> /\ summary = "none"
    /\ gpc = "idle" /\ gem_key = FALSE /\ audio_file = "none" /\ elapsed = 0
    /\ polls = 0 /\ gem_idx = 0 /\ transcription = "none"
    /\ gem_last_error = "none" /\ delete_requested = FALSE /\ gem_result = "none"

\* bot.py:129-165: credentials, client, decode, windows
ChirpSetup ==
    /\ cpc = "start"
    /\ \E ok \in BOOLEAN :
         IF ok
           THEN /\ chunks' = Chunks(audio_len)
                /\ calls' = [k \in 1..Len(Chunks(audio_len)) |-> 0]
                /\ all_lines' = <<>>
                /\ last_timestamp_seconds' = -120
                /\ idx' = 0
                /\ cpc' = "loop"
           ELSE /\ cpc' = "rejected"
                /\ UNCHANGED <<chunks, calls, all_lines, last_timestamp_seconds, idx>>
    /\ UNCHANGED <<responds, audio_len, tmp_exists, outcomes, inflight, result, audioVars, sendVars, sumVars, gemVars>>

\* bot.py:167-172: next window, its temporary file
ChirpMkTemp ==
    /\ cpc = "loop"
    /\ idx < Len(chunks)
    /\ tmp_exists' = TRUE
    /\ cpc' = "export"
    /\ UNCHANGED <<responds, audio_len, chunks, idx, all_lines, last_timestamp_seconds, calls,
                   outcomes, inflight, result, audioVars, sendVars, sumVars, gemVars>>

\* bot.py:178-180: the finally unlinks the file, whether the export raised or not
TmpAfterExport(ok) == FALSE

\* bot.py:173-180: export and read back; the finally removes the file
ChirpExport ==
    /\ cpc = "export"
    /\ \E ok \in BOOLEAN :
         /\ tmp_exists' = TmpAfterExport(ok)
         /\ cpc' = IF ok THEN "recognize" ELSE "raised"
    /\ UNCHANGED <<responds, audio_len, chunks, idx, all_lines, last_timestamp_seconds, calls,
                   outcomes, inflight, result, audioVars, sendVars, sumVars, gemVars>>

\* bot.py:182-191: the request is submitted
ChirpRecognize ==
    /\ cpc = "recognize"
    /\ calls' = [calls EXCEPT ![idx + 1] = @ + 1]
    /\ inflight' = inflight + 1
    /\ responds' \in BOOLEAN
    /\ cpc' = "await"
    /\ UNCHANGED <<audio_len, chunks, idx, all_lines, last_timestamp_seconds,
                   tmp_exists, outcomes, result, audioVars, sendVars, sumVars, gemVars>>

Outcome(i, failed, response) ==
    [win |-> i, offset_secs |-> ChunkOffsetSecs(i), failed |-> failed,
     response |-> response]

\* bot.py:192-195: the call raised
ChirpWindowFailed ==
    /\ cpc = "await"
    /\ responds
    /\ inflight' = inflight - 1
    /\ all_lines' = AbsorbFailure(all_lines, idx)
    /\ outcomes' = Append(outcomes, Outcome(idx, TRUE, <<>>))
    /\ idx' = idx + 1
    /\ cpc' = "loop"
    /\ UNCHANGED <<responds, audio_len, chunks, last_timestamp_seconds, tmp_exists, calls,
                   result, audioVars, sendVars, sumVars, gemVars>>

\* bot.py:197-222: the call returned
ChirpWindowDone ==
    /\ cpc = "await"
    /\ responds
    /\ inflight' = inflight - 1
    /\ \E response \in Responses :
         LET st == ProcessResponse([lines |-> all_lines,
                                    last |-> last_timestamp_seconds], response, idx)
         IN  /\ all_lines' = st.lines
             /\ last_timestamp_seconds' = st.last
             /\ outcomes' = Append(outcomes, Outcome(idx, FALSE, response))
    /\ idx' = idx + 1
    /\ cpc' = "loop"
    /\ UNCHANGED <<responds, audio_len, chunks, tmp_exists, calls, result, audioVars, sendVars, sumVars, gemVars>>

\* bot.py:224
ChirpReturn ==
    /\ cpc = "loop"
    /\ idx >= Len(chunks)
    /\ result' = ChirpResult(all_lines)
    /\ cpc' = "returned"
    /\ UNCHANGED <<responds, audio_len, chunks, idx, all_lines, last_timestamp_seconds,
                   tmp_exists, calls, outcomes, inflight, audioVars, sendVars, sumVars, gemVars>>

NextChirp ==
    \/ ChirpSetup \/ ChirpMkTemp \/ ChirpExport \/ ChirpRecognize
    \/ ChirpWindowFailed \/ ChirpWindowDone \/ ChirpReturn

----------------------------------------------------------------------------
(* send_long_text, bot.py:275-292 *)

\* bot.py:277
LIMIT == 4000

\* A text is a sequence of characters. The i-th character of the body is i,
\* a header character is 0, and a character of the continuation text of
\* part n is -n, so that where each character of a message came from can be
\* read off the message.
HeaderText(n) == [i \in 1..n |-> 0]
BodyText(n) == [i \in 1..n |-> i]

HeaderLens == {0, 1, MaxHeaderLen}
BodyLens ==
    {0, 1, LIMIT - MaxHeaderLen, LIMIT - MaxHeaderLen + 1}
        \cup {k * LIMIT + d : k \in 1..MaxSegments, d \in {-1, 0, 1}}

\* the number of decimal digits str.format writes for n >= 0
RECURSIVE Digits(_)
Digits(n) == IF n < 10 THEN 1 ELSE 1 + Digits(n \div 10)

\* bot.py:289: f"\n\n_(continued {part})_" -- two newlines, "_(continued ",
\* the digits of part, ")_"
Suffix(n) == [i \in 1..(2 + 12 + Digits(n) + 2) |-> 0 - n]

RestSkipsOne(rem) == SubSeq(rem, Min(LIMIT, Len(rem)) + 2, Len(rem))

\* bot.py:287: remaining[:LIMIT]
Chunk(rem) == SubSeq(rem, 1, Min(LIMIT, Len(rem)))

\* bot.py:288: remaining[LIMIT:]
Rest(rem) == SubSeq(rem, Min(LIMIT, Len(rem)) + 1, Len(rem))

\* one message.reply_text call and the parse mode it was given
Reply(text, mode) == [text |-> text, parse_mode |-> mode]

InitSend ==
    /\ spc = "start"
    /\ \E h \in HeaderLens : header = HeaderText(h)
    /\ \E b \in BodyLens : body = BodyText(b)
    /\ remaining = <<>>
    /\ part = 0
    /\ sent = <<>>
    \* no request, transcribe_with_chirp or summarize_with_gemini call
    /\ pc = "idle" /\ has_audio = FALSE /\ duration_ms = 0
    /\ original_filename = "none" /\ download_error = NoDownloadError
    /\ gemini_key = FALSE /\ chirp_creds = FALSE
    /\ status_message = "none" /\ transcription_status = "none"
    /\ summary_status = "none"
    /\ disk = [f \in FileNames |-> NoFile]
    /\ handed = <<>> /\ msgLog = <<>> /\ texts = <<>>
    /\ transcription_mp3_path = "none" /\ mp3_sent = FALSE
    /\ transInput = NoFile /\ backend = "none" /\ tier3 = FALSE
    /\ requestError = FALSE /\ temp_dir = "none"
    /\ cpc = "idle" /\ audio_len = 0 /\ chunks = <<>> /\ idx = 0
    /\ all_lines = <<>> /\ last_timestamp_seconds = 0 /\ tmp_exists = FALSE
    /\ calls = <<>> /\ outcomes = <<>> /\ inflight = 0 /\ responds = TRUE
    /\ result = [kind |-> "none", lines |-> <<>>]
    /\ mpc = "idle" /\ api_key = FALSE /\ model_idx = 0 /\ last_error = "none"
    /\ tried = <<>> /\ summary = "none"
    /\ gpc = "idle" /\ gem_key = FALSE /\ audio_file = "none" /\ elapsed = 0
    /\ polls = 0 /\ gem_idx = 0 /\ transcription = "none"
    /\ gem_last_error = "none" /\ delete_requested = FALSE /\ gem_result = "none"

\* bot.py:278-281: the whole text fits one message
SendWhole ==
    /\ spc = "start"
    /\ Len(header \o body) <= LIMIT
    /\ sent' = Append(sent, Reply(header \o body, "Markdown"))
    /\ \E ok \in BOOLEAN : spc' = IF ok THEN "returned" ELSE "raised"
    /\ UNCHANGED <<header, body, remaining, part, audioVars, chirpVars, sumVars, gemVars>>

\* bot.py:283-285: the header goes first, on its own
SendHeader ==
    /\ spc = "start"
    /\ Len(header \o body) > LIMIT
    /\ sent' = Append(sent, Reply(header, "Markdown"))
    /\ \E ok \in BOOLEAN :
         IF ok THEN /\ remaining' = body
                    /\ part' = 1
                    /\ spc' = "loop"
               ELSE /\ spc' = "raised"
                    /\ UNCHANGED <<remaining, part>>
    /\ UNCHANGED <<header, body, audioVars, chirpVars, sumVars, gemVars>>

\* bot.py:286-291: one pass of the while loop
SendChunk ==
    /\ spc = "loop"
    /\ remaining /= <<>>
    /\ remaining' = Rest(remaining)
    /\ LET suffix == IF remaining' /= <<>> THEN Suffix(part) ELSE <<>>
       IN  sent' = Append(sent, Reply(Chunk(remaining) \o suffix, "none"))
    /\ \E ok \in BOOLEAN :
         IF ok THEN /\ part' = part + 1
                    /\ spc' = "loop"
               ELSE /\ spc' = "raised"
                    /\ UNCHANGED part
    /\ UNCHANGED <<header, body, audioVars, chirpVars, sumVars, gemVars>>

\* bot.py:286: remaining is empty, the function returns
SendReturn ==
    /\ spc = "loop"
    /\ remaining = <<>>
    /\ spc' = "returned"
    /\ UNCHANGED <<header, body, remaining, part, sent, audioVars, chirpVars, sumVars, gemVars>>

NextSend == SendWhole \/ SendHeader \/ SendChunk \/ SendReturn

----------------------------------------------------------------------------
(* summarize_with_gemini, bot.py:227-272 *)

\* bot.py:250-255
candidate_models ==
    <<"gemini-2.0-flash-lite", "gemini-2.0-flash-001", "gemini-2.5-flash",
      "gemini-2.5-pro">>

\* what a generate_content call, or reading response.text, may raise
ErrorKinds == {"not_found", "quota", "blocked"}

\* response.text: characters, " " standing for any whitespace
ResponseTexts == {<<"s">>, <<" ", "s", "s", " ">>, <<"s", " ", "s">>, <<" ">>}

\* str.strip(): leading and trailing whitespace removed
RECURSIVE StripText(_)
StripText(t) ==
    IF t = <<>> THEN <<>>
    ELSE IF Head(t) = " " THEN StripText(Tail(t))
    ELSE IF t[Len(t)] = " " THEN StripText(SubSeq(t, 1, Len(t) - 1))
    ELSE t

FirstError(prev, e) == IF prev = "none" THEN e ELSE prev

\* bot.py:269: last_error = e
LastError(prev, e) == e

Returned(model, text) == [kind |-> "returned", model |-> model, text |-> text]
Raised(error, last)   == [kind |-> error, last |-> last]

InitSummarize ==
    /\ mpc = "start"
    /\ api_key \in BOOLEAN
    /\ model_idx = 0
    /\ last_error = "none"
    /\ tried = <<>>
    /\ summary = "none"
    \* no request, transcribe_with_chirp or send_long_text call
    /\ pc = "idle" /\ has_audio = FALSE /\ duration_ms = 0
    /\ original_filename = "none" /\ download_error = NoDownloadError
    /\ gemini_key = FALSE /\ chirp_creds = FALSE
    /\ status_message = "none" /\ transcription_status = "none"
    /\ summary_status = "none"
    /\ disk = [f \in FileNames |-> NoFile]
    /\ handed = <<>> /\ msgLog = <<>> /\ texts = <<>>
    /\ transcription_mp3_path = "none" /\ mp3_sent = FALSE
    /\ transInput = NoFile /\ backend = "none" /\ tier3 = FALSE
    /\ requestError = FALSE /\ temp_dir = "none"
    /\ cpc = "idle" /\ audio_len = 0 /\ chunks = <<>> /\ idx = 0
    /\ all_lines = <<>> /\ last_timestamp_seconds = 0 /\ tmp_exists = FALSE
    /\ calls = <<>> /\ outcomes = <<>> /\ inflight = 0 /\ responds = TRUE
    /\ result = [kind |-> "none", lines |-> <<>>]
    /\ spc = "idle" /\ header = <<>> /\ body = <<>> /\ remaining = <<>>
    /\ part = 0 /\ sent = <<>>
    /\ gpc = "idle" /\ gem_key = FALSE /\ audio_file = "none" /\ elapsed = 0
    /\ polls = 0 /\ gem_idx = 0 /\ transcription = "none"
    /\ gem_last_error = "none" /\ delete_requested = FALSE /\ gem_result = "none"

\* bot.py:231-233, 257-258
SumCheckKey ==
    /\ mpc = "start"
    /\ IF api_key
         THEN /\ model_idx' = 1
              /\ mpc' = "loop"
              /\ UNCHANGED summary
         ELSE /\ summary' = Raised("ValueError", "none")
              /\ mpc' = "raised"
              /\ UNCHANGED model_idx
    /\ UNCHANGED <<api_key, last_error, tried, audioVars, chirpVars, sendVars, gemVars>>

\* bot.py:259-264: the next model of the list is called
SumCall ==
    /\ mpc = "loop"
    /\ model_idx <= Len(candidate_models)
    /\ tried' = Append(tried, [model |-> candidate_models[model_idx], outcome |-> "pending"])
    /\ mpc' = "await"
    /\ UNCHANGED <<api_key, model_idx, last_error, summary, audioVars, chirpVars, sendVars, gemVars>>

\* bot.py:265-266: the call returned a text
SumModelReturned ==
    /\ mpc = "await"
    /\ \E text \in ResponseTexts :
         summary' = Returned(candidate_models[model_idx], StripText(text))
    /\ tried' = [tried EXCEPT ![Len(tried)].outcome = "ok"]
    /\ mpc' = "returned"
    /\ UNCHANGED <<api_key, model_idx, last_error, audioVars, chirpVars, sendVars, gemVars>>

\* bot.py:267-270: the call, or response.text, raised
SumModelFailed ==
    /\ mpc = "await"
    /\ \E e \in ErrorKinds :
         /\ last_error' = LastError(last_error, e)
         /\ tried' = [tried EXCEPT ![Len(tried)].outcome = e]
    /\ model_idx' = model_idx + 1
    /\ mpc' = "loop"
    /\ UNCHANGED <<api_key, summary, audioVars, chirpVars, sendVars, gemVars>>

\* bot.py:272: the list is exhausted
SumExhausted ==
    /\ mpc = "loop"
    /\ model_idx > Len(candidate_models)
    /\ summary' = Raised("RuntimeError", last_error)
    /\ mpc' = "raised"
    /\ UNCHANGED <<api_key, model_idx, last_error, tried, audioVars, chirpVars, sendVars, gemVars>>

NextSummarize ==
    SumCheckKey \/ SumCall \/ SumModelReturned \/ SumModelFailed \/ SumExhausted

----------------------------------------------------------------------------
(* transcribe_with_gemini_files, bot.py:28-115 *)

\* bot.py:58: the processing timeout, and bot.py:61: the pause between
\* polls, in seconds
TIMEOUT_SECS == 600
POLL_SECS == 10

\* bot.py:89-93
transcription_models == <<"gemini-1.5-pro", "gemini-2.0-flash", "gemini-1.5-flash">>

\* the file states the service may report
FileStates == {"PROCESSING", "ACTIVE", "FAILED"}

\* how long a genai.get_file call may take, in seconds
Delays == (0..MaxDelaySecs) \cup {TIMEOUT_SECS}

TimedOutLate(e) == e > 2 * TIMEOUT_SECS

\* bot.py:58: time.time() - start > 600
TimedOut(e) == e > TIMEOUT_SECS

GemReturned(text) == [kind |-> "returned", text |-> text]
GemRaised(error)  == [kind |-> error, text |-> <<>>]

InitGemini ==
    /\ gpc = "start"
    /\ gem_key \in BOOLEAN
    /\ audio_file = "none"
    /\ elapsed = 0
    /\ polls = 0
    /\ gem_idx = 0
    /\ transcription = "none"
    /\ gem_last_error = "none"
    /\ delete_requested = FALSE
    /\ gem_result = "none"
    \* no request and no other call
    /\ pc = "idle" /\ has_audio = FALSE /\ duration_ms = 0
    /\ original_filename = "none" /\ download_error = NoDownloadError
    /\ gemini_key = FALSE /\ chirp_creds = FALSE
    /\ status_message = "none" /\ transcription_status = "none"
    /\ summary_status = "none"
    /\ disk = [f \in FileNames |-> NoFile]
    /\ handed = <<>> /\ msgLog = <<>> /\ texts = <<>>
    /\ transcription_mp3_path = "none" /\ mp3_sent = FALSE
    /\ transInput = NoFile /\ backend = "none" /\ tier3 = FALSE
    /\ requestError = FALSE /\ temp_dir = "none"
    /\ cpc = "idle" /\ audio_len = 0 /\ chunks = <<>> /\ idx = 0
    /\ all_lines = <<>> /\ last_timestamp_seconds = 0 /\ tmp_exists = FALSE
    /\ calls = <<>> /\ outcomes = <<>> /\ inflight = 0 /\ responds = TRUE
    /\ result = [kind |-> "none", lines |-> <<>>]
    /\ spc = "idle" /\ header = <<>> /\ body = <<>> /\ remaining = <<>>
    /\ part = 0 /\ sent = <<>>
    /\ mpc = "idle" /\ api_key = FALSE /\ model_idx = 0 /\ last_error = "none"
    /\ tried = <<>> /\ summary = "none"

\* bot.py:38-40
GemCheckKey ==
    /\ gpc = "start"
    /\ IF gem_key
         THEN gpc' = "upload" /\ UNCHANGED gem_result
         ELSE gpc' = "raised" /\ gem_result' = GemRaised("ValueError")
    /\ UNCHANGED <<gem_key, audio_file, elapsed, polls, gem_idx, transcription,
                   gem_last_error, delete_requested,
                   audioVars, chirpVars, sendVars, sumVars>>

\* bot.py:49-55: upload_file returns the file in some state, or raises
GemUpload ==
    /\ gpc = "upload"
    /\ \/ /\ audio_file' \in FileStates
          /\ gpc' = "while"
          /\ UNCHANGED gem_result
       \/ /\ gpc' = "raised"
          /\ gem_result' = GemRaised("UploadError")
          /\ UNCHANGED audio_file
    /\ UNCHANGED <<gem_key, elapsed, polls, gem_idx, transcription,
                   gem_last_error, delete_requested,
                   audioVars, chirpVars, sendVars, sumVars>>

\* bot.py:56-59, 66-69: the loop condition, the timeout, the state check
GemWhile ==
    /\ gpc = "while"
    /\ IF audio_file = "PROCESSING"
         THEN IF TimedOut(elapsed)
                THEN /\ gpc' = "raised"
                     /\ gem_result' = GemRaised("TimeoutError")
                     /\ UNCHANGED gem_idx
                ELSE /\ gpc' = "sleep"
                     /\ UNCHANGED <<gem_result, gem_idx>>
         ELSE IF audio_file # "ACTIVE"
                THEN /\ gpc' = "raised"
                     /\ gem_result' = GemRaised("ProcessingFailed")
                     /\ UNCHANGED gem_idx
                ELSE /\ gpc' = "models"
                     /\ gem_idx' = 1
                     /\ UNCHANGED gem_result
    /\ UNCHANGED <<gem_key, audio_file, elapsed, polls, transcription,
                   gem_last_error, delete_requested,
                   audioVars, chirpVars, sendVars, sumVars>>

\* bot.py:60-64: sleep 10 s, then get_file returns the state or raises
GemPoll ==
    /\ gpc = "sleep"
    /\ polls' = polls + 1
    /\ \E d \in Delays : elapsed' = elapsed + POLL_SECS + d
    /\ \/ /\ audio_file' \in FileStates
          /\ gpc' = "while"
          /\ UNCHANGED gem_result
       \/ /\ gpc' = "raised"
          /\ gem_result' = GemRaised("GetFileError")
          /\ UNCHANGED audio_file
    /\ UNCHANGED <<gem_key, gem_idx, transcription, gem_last_error,
                   delete_requested, audioVars, chirpVars, sendVars, sumVars>>

\* bot.py:97-103: the next model's call fails, or returns a text
GemModel ==
    /\ gpc = "models"
    /\ gem_idx <= Len(transcription_models)
    /\ \/ \E text \in ResponseTexts :
            /\ transcription' = StripText(text)
            /\ gpc' = "cleanup"
            /\ UNCHANGED <<gem_idx, gem_last_error>>
       \/ \E e \in ErrorKinds :
            /\ gem_last_error' = e
            /\ gem_idx' = gem_idx + 1
            /\ UNCHANGED <<gpc, transcription>>
    /\ UNCHANGED <<gem_key, audio_file, elapsed, polls, delete_requested,
                   gem_result, audioVars, chirpVars, sendVars, sumVars>>

\* bot.py:96: the list is exhausted
GemModelsExhausted ==
    /\ gpc = "models"
    /\ gem_idx > Len(transcription_models)
    /\ gpc' = "cleanup"
    /\ UNCHANGED <<gem_key, audio_file, elapsed, polls, gem_idx, transcription,
                   gem_last_error, delete_requested, gem_result,
                   audioVars, chirpVars, sendVars, sumVars>>

\* bot.py:105-115: delete_file (its failure is only logged), then the
\* return or the all-models-failed error
GemCleanup ==
    /\ gpc = "cleanup"
    /\ delete_requested' = TRUE
    /\ IF transcription = "none"
         THEN gpc' = "raised" /\ gem_result' = GemRaised("AllModelsFailed")
         ELSE gpc' = "returned" /\ gem_result' = GemReturned(transcription)
    /\ UNCHANGED <<gem_key, audio_file, elapsed, polls, gem_idx, transcription,
                   gem_last_error, audioVars, chirpVars, sendVars, sumVars>>

NextGemini ==
    \/ GemCheckKey \/ GemUpload \/ GemWhile \/ GemPoll
    \/ GemModel \/ GemModelsExhausted \/ GemCleanup

----------------------------------------------------------------------------
(* Specifications *)

SpecAudio == InitAudio /\ [][NextAudio]_vars

SpecChirp == InitChirp /\ [][NextChirp]_vars

SpecSend == InitSend /\ [][NextSend]_vars

SpecSummarize == InitSummarize /\ [][NextSummarize]_vars

SpecGemini == InitGemini /\ [][NextGemini]_vars

----------------------------------------------------------------------------
(* Claims about handle_audio, under SpecAudio *)

\* the artifacts the transport accepted, in order
Delivered == SelectSeq(handed, LAMBDA a : a.accepted)

\* the Tier 1 and the Tier 2 encode both succeeded and both exceed the ceiling
BothOverCeiling ==
    /\ Exists(disk["output"]) /\ TooLarge(disk["output"].size)
    /\ Exists(disk["compressed"]) /\ TooLarge(disk["compressed"].size)

\* C1: whenever the 128k and the 64k mono output both exceed the 45 MB
\* ceiling, no Tier 2 artifact is delivered, and the finished request has
\* delivered exactly the two halves [0, half) and [half, duration).
C1_SplitWhenBothTiersOverCeiling ==
    BothOverCeiling =>
        /\ \A k \in 1..Len(Delivered) : Delivered[k].path # "compressed"
        /\ pc = "done" =>
             /\ Len(Delivered) = 2
             /\ Delivered[1].path = "part1" /\ Delivered[2].path = "part2"
             /\ Delivered[1].lo = 0
             /\ Delivered[1].hi = Delivered[2].lo
             /\ Delivered[2].hi = duration_ms

\* C2: every artifact handed to the transport is at most the ceiling; when
\* every tier's encode exceeds it, the finished request has delivered exactly
\* "Part 1/2" and "Part 2/2".
C2_HandedWithinCeiling ==
    /\ \A k \in 1..Len(handed) : handed[k].size <= CeilingBytes
    /\ (BothOverCeiling /\ pc = "done") =>
         /\ Len(Delivered) = 2
         /\ Delivered[1].caption = "Part 1/2"
         /\ Delivered[2].caption = "Part 2/2"

\* the transcriber has been called
TranscriberCalled ==
    backend # "none" /\ pc \notin {"g_call", "c_call"}

\* C3: the file given to the transcriber covers the whole recording
\* [0, duration), whichever tier delivered the audio.
C3_TranscribesFullRecording ==
    TranscriberCalled => (transInput.lo = 0 /\ transInput.hi = duration_ms)

Tier3Positions ==
    {"t3_edit", "t3_export1", "t3_export2", "t3_send1", "t3_send2", "t3_delete"}

\* C4: once the ladder is in Tier 3, every step of Tier 3 stays in Tier 3 or
\* moves on to the transcription stage; none ends in the request-level
\* error handler.
C4_Tier3CannotFail ==
    [][(pc \in Tier3Positions) => (pc' \in (Tier3Positions \cup {"transcribe"}))]_vars

----------------------------------------------------------------------------
(* Claims about transcribe_with_chirp, under SpecChirp *)

\* the windows have been computed
Windowed == cpc \in {"loop", "export", "recognize", "await", "raised", "returned"}

CeilDiv(d, w) == IF d % w = 0 THEN d \div w ELSE d \div w + 1

\* C5: there are ceil(D/W) windows, window i covers
\* [i*W, min((i+1)*W, D)), the windows tile [0, D), the last one is
\* D - (n-1)*W long, and the timestamp offset of window i is its start.
C5_WindowsTile ==
    Windowed =>
        LET n == Len(chunks) IN
        /\ n = CeilDiv(audio_len, CHUNK_MS)
        /\ \A i \in 0..(n - 1) :
             /\ chunks[i + 1].lo = i * CHUNK_MS
             /\ chunks[i + 1].hi = Min((i + 1) * CHUNK_MS, audio_len)
             /\ chunks[i + 1].lo < chunks[i + 1].hi
        /\ \A i \in 1..(n - 1) : chunks[i].hi = chunks[i + 1].lo
        /\ n > 0 => /\ chunks[1].lo = 0
                    /\ chunks[n].hi = audio_len
                    /\ chunks[n].hi - chunks[n].lo = audio_len - (n - 1) * CHUNK_MS
        /\ \A k \in 1..Len(outcomes) :
             outcomes[k].offset_secs * 1000 = chunks[outcomes[k].win + 1].lo

C5_Witness ==
    /\ cpc = "returned" /\ audio_len = 3 * CHUNK_MS + 20000
    /\ Len(chunks) = 4 /\ Len(outcomes) = 4

\* the [MM:SS] markers of a transcript, read back as absolute seconds
MarkerLines(lines) == SelectSeq(lines, LAMBDA l : l.kind = "marker")
MarkerSeconds(lines) ==
    LET ms == MarkerLines(lines) IN [k \in 1..Len(ms) |-> ms[k].a * 60 + ms[k].b]

\* a result that has text and carries word timing
CarriesTiming(r) == r.has_alt /\ r.transcript = "speech" /\ r.words # <<>>

TimedWindows ==
    {k \in 1..Len(outcomes) :
        \E j \in 1..Len(outcomes[k].response) : CarriesTiming(outcomes[k].response[j])}

\* C6: markers are strictly increasing in absolute seconds and at least
\* 120 s apart, whatever the windows returned; the first result with word
\* timing has a marker, at its own absolute time.
C6_MarkersSpaced ==
    LET secs == MarkerSeconds(all_lines) IN
    /\ \A k \in 1..(Len(secs) - 1) :
         secs[k] < secs[k + 1] /\ secs[k + 1] - secs[k] >= 120
    /\ TimedWindows # {} =>
         LET k  == CHOOSE x \in TimedWindows : \A y \in TimedWindows : x <= y
             rs == outcomes[k].response
             j  == CHOOSE x \in 1..Len(rs) :
                      /\ CarriesTiming(rs[x])
                      /\ \A y \in 1..(x - 1) : ~CarriesTiming(rs[y])
         IN  /\ secs # <<>>
             /\ secs[1] = outcomes[k].offset_secs + rs[j].words[1] \div 1000
             /\ MarkerLines(all_lines)[1].win = outcomes[k].win

C6_Witness ==
    /\ cpc = "returned"
    /\ Len(MarkerLines(all_lines)) = 2
    /\ MarkerSeconds(all_lines)[2] - MarkerSeconds(all_lines)[1] = 120
    /\ \E k \in 1..Len(outcomes) : outcomes[k].failed
    /\ \E k \in 1..Len(outcomes) : outcomes[k].response = <<Blank>>

\* the 185-second recording whose every window returns one result whose
\* first word starts at the window boundary
Scenario185 ==
    /\ cpc = "returned"
    /\ audio_len = 185 * 1000
    /\ \A k \in 1..Len(outcomes) :
         ~outcomes[k].failed /\ outcomes[k].response = <<Timed(0)>>

FourWindows ==
    /\ Len(chunks) = 4 /\ Len(outcomes) = 4
    /\ \A i \in 1..3 : chunks[i].hi - chunks[i].lo = 55 * 1000
    /\ chunks[4].hi - chunks[4].lo = 20 * 1000

\* C7 as stated: 4 windows of 55, 55, 55 and 20 s and exactly two markers,
\* [0:00] at the first window and the second at the third window (110 s).
C7_SecondMarkerAtThirdWindow ==
    Scenario185 =>
        /\ FourWindows
        /\ MarkerLines(all_lines) = <<MarkerLine(0, 0, 0), MarkerLine(1, 50, 2)>>

\* C7 amended: 4 windows of 55, 55, 55 and 20 s and exactly two markers,
\* [0:00] at the first window and [2:45] at the fourth window (165 s), the
\* first window that starts at least 120 s after the first marker.
C7_SecondMarkerAtFourthWindow ==
    Scenario185 =>
        /\ FourWindows
        /\ MarkerLines(all_lines) = <<MarkerLine(0, 0, 0), MarkerLine(2, 45, 3)>>

C7_Witness == Scenario185 /\ Len(outcomes) = 4 /\ Len(all_lines) = 6

LinesOf(i) == SelectSeq(all_lines, LAMBDA l : l.win = i)

\* C8: every window processed so far got exactly one recognizer call, a
\* failed window contributed exactly its placeholder line, a raise comes
\* only from a window's export before its call, and a call that returns
\* normally has submitted every window once.
C8_FailureAbsorbed ==
    /\ \A k \in 1..Len(outcomes) :
         /\ outcomes[k].win = k - 1
         /\ calls[k] = 1
         /\ outcomes[k].failed => LinesOf(k - 1) = <<FailedLine(k - 1)>>
    /\ Windowed => Len(outcomes) = idx
    /\ cpc = "raised" => (idx < Len(chunks) /\ calls[idx + 1] = 0)
    /\ cpc = "returned" =>
         /\ Len(outcomes) = Len(chunks)
         /\ \A i \in 1..Len(chunks) : calls[i] = 1

C8_Witness ==
    /\ cpc = "returned" /\ Len(chunks) = 4
    /\ outcomes[1].failed /\ outcomes[3].failed
    /\ outcomes[2].response = <<Plain>> /\ outcomes[4].response = <<Timed(0)>>

\* every recognizer call of a finished run failed
AllFailed ==
    cpc = "returned" /\ \A k \in 1..Len(outcomes) : outcomes[k].failed

PlaceholderTranscript ==
    /\ result.kind = "transcript"
    /\ result.lines = [k \in 1..Len(chunks) |-> FailedLine(k - 1)]
    /\ result.lines # <<>>
    /\ result # Sentinel

\* C9 as stated: if every window's recognizer call fails, the transcript is
\* the numWindows placeholder lines in order, neither empty nor the sentinel.
C9_AllFailedGivesPlaceholders == AllFailed => PlaceholderTranscript

\* C9 amended: the same, for a recording that has at least one window.
C9_AllFailedGivesPlaceholdersNonEmpty ==
    (AllFailed /\ Len(chunks) >= 1) => PlaceholderTranscript

C9_Witness ==
    AllFailed /\ Len(chunks) = 4 /\ Len(result.lines) = 4

\* every call succeeded and no result had non-empty text
AllQuiet ==
    \A k \in 1..Len(outcomes) :
        /\ ~outcomes[k].failed
        /\ \A j \in 1..Len(outcomes[k].response) :
             ~(outcomes[k].response[j].has_alt
               /\ outcomes[k].response[j].transcript = "speech")

\* C10: the sentinel is returned exactly when every call succeeded and none
\* yielded text; otherwise the transcript is returned.
C10_SentinelIffQuiet ==
    cpc = "returned" =>
        /\ (result = Sentinel) <=> AllQuiet
        /\ ~AllQuiet => (result.kind = "transcript" /\ result.lines = all_lines)

C10_Witness ==
    /\ cpc = "returned" /\ result = Sentinel /\ Len(outcomes) = 4
    /\ outcomes[1].response = <<Blank>>
    /\ outcomes[2].response = <<NoAlternative>>
    /\ outcomes[3].response = <<>>

----------------------------------------------------------------------------
(* Claims about send_long_text, under SpecSend *)

\* C11: every text send_long_text gives to message.reply_text, the
\* continuation text included, is at most LIMIT characters long.
C11_SegmentsWithinLimit ==
    \A i \in 1..Len(sent) : Len(sent[i].text) <= LIMIT

\* text ends with tail
EndsWith(text, tail) ==
    /\ Len(text) >= Len(tail)
    /\ SubSeq(text, Len(text) - Len(tail) + 1, Len(text)) = tail

StartsWith(text, head) ==
    /\ Len(text) >= Len(head)
    /\ SubSeq(text, 1, Len(head)) = head

\* the n-th message without the header (first message) and without the
\* continuation text of part n - 1 (later messages)
Stripped(n) ==
    LET text == sent[n].text IN
    IF n = 1
    THEN IF StartsWith(text, header)
         THEN SubSeq(text, Len(header) + 1, Len(text)) ELSE text
    ELSE IF EndsWith(text, Suffix(n - 1))
         THEN SubSeq(text, 1, Len(text) - Len(Suffix(n - 1))) ELSE text

RECURSIVE Reassembled(_)
Reassembled(n) == IF n = 0 THEN <<>> ELSE Reassembled(n - 1) \o Stripped(n)

\* C12: when send_long_text has returned, the messages it sent, in order,
\* with the header and the continuation texts taken off, concatenate to
\* exactly the body.
C12_RoundTrip ==
    spc = "returned" => Reassembled(Len(sent)) = body

\* a body of more than one full segment went out in three chunks after the
\* header, the first two carrying a continuation text
C12_Witness ==
    /\ spc = "returned"
    /\ Len(body) > 2 * LIMIT
    /\ Len(sent) = 4
    /\ EndsWith(sent[2].text, Suffix(1))
    /\ EndsWith(sent[3].text, Suffix(2))

----------------------------------------------------------------------------
(* Claims about the ladder's first success, under SpecAudio *)

\* the tier a file belongs to, and the tier a position belongs to
TierOfPath(path) ==
    IF path = "output" THEN 1 ELSE IF path = "compressed" THEN 2 ELSE 3

Tier2Positions == {"t2_edit", "t2_export", "t2_send", "t2_delete"}

TierOfPosition(p) ==
    IF p \in Tier2Positions THEN 2 ELSE IF p \in Tier3Positions THEN 3 ELSE 0

\* the 128k output is over the ceiling, the 64k mono output is not, and the
\* transport accepted the 64k mono file
Tier2Delivered ==
    /\ Exists(disk["output"]) /\ TooLarge(disk["output"].size)
    /\ Exists(disk["compressed"]) /\ ~TooLarge(disk["compressed"].size)
    /\ \E i \in 1..Len(handed) :
         handed[i].path = "compressed" /\ handed[i].accepted

\* C13: when the Tier 1 output is over the ceiling and the Tier 2 output,
\* under it, has been delivered, that file is the only artifact: the Tier 1
\* file is never handed to the transport and the split tier is not entered.
C13_OnlyTier2Artifact ==
    Tier2Delivered =>
        /\ Len(Delivered) = 1
        /\ Delivered[1].path = "compressed"
        /\ \A i \in 1..Len(handed) : handed[i].path # "output"
        /\ ~tier3
        /\ pc \notin Tier3Positions

\* C18: once a tier's artifact has been accepted by the transport, the
\* request is at no position of a later tier and nothing of a later tier is
\* handed to the transport, whatever the calls after the delivery do.
C18_LadderStopsAtFirstSuccess ==
    \A i \in 1..Len(handed) :
        handed[i].accepted =>
            /\ TierOfPosition(pc) <= TierOfPath(handed[i].path)
            /\ \A j \in (i + 1)..Len(handed) :
                 TierOfPath(handed[j].path) = TierOfPath(handed[i].path)

----------------------------------------------------------------------------
(* Claims about the transcription stage, under SpecAudio *)

ChirpPositions == {"c_call", "c_delete", "c_send"}

\* C16: with GEMINI_API_KEY set the request never selects or runs the Chirp
\* backend, whether or not the fallback credential is set and whatever the
\* primary does; Chirp runs only with the key absent and the fallback
\* credential present.
C16_FallbackOnlyWithoutPrimary ==
    /\ gemini_key => (backend # "chirp" /\ pc \notin ChirpPositions)
    /\ (backend = "chirp" \/ pc \in ChirpPositions) => (~gemini_key /\ chirp_creds)

\* both credentials set, the primary transcriber's call itself failed (its
\* status message was never deleted, the failure was reported), the request
\* is over
C16_Witness ==
    /\ gemini_key /\ chirp_creds
    /\ backend = "gemini"
    /\ pc = "done"
    /\ transInput # NoFile
    /\ \E k \in 1..Len(msgLog) : msgLog[k].text = "transcription_failed"
    /\ \A k \in 1..Len(msgLog) : msgLog[k].handle # "transcription" \/ msgLog[k].op # "delete"

FailureTexts == {"transcription_failed", "summary_failed"}

\* the k-th logged call is an attempt to tell the requester that a stage failed
FailureNotice(k) == msgLog[k].op = "edit" /\ msgLog[k].text \in FailureTexts

\* the message the k-th logged call acts on had been deleted before the call
TargetGone(k) ==
    \E j \in 1..(k - 1) :
        /\ msgLog[j].handle = msgLog[k].handle
        /\ msgLog[j].op = "delete"
        /\ msgLog[j].ok

\* the messages the handler ever edits or deletes: its three progress messages
ProgressHandles == {"status", "transcription", "summary"}

\* C15: when the transcription or the summary stage has failed after the
\* audio was delivered, the request does not end before a failure notice
\* ("... was still sent above") has reached the requester -- or was refused
\* by the transport although its target message still existed -- and only
\* progress messages, never a delivered artifact or transcript, are edited
\* or deleted.
C15_FailureReported ==
    /\ \A k \in 1..Len(msgLog) : msgLog[k].handle \in ProgressHandles
    /\ (pc = "done" /\ mp3_sent /\ \E k \in 1..Len(msgLog) : FailureNotice(k))
         => \E k \in 1..Len(msgLog) :
                FailureNotice(k) /\ (msgLog[k].ok \/ ~TargetGone(k))

----------------------------------------------------------------------------
(* Claim about temporary files, under SpecAudio (and SpecChirp) *)

ChirpExits == {"returned", "raised", "rejected"}

\* C17: when handle_audio has returned, its temporary directory and every
\* file written for the request are gone; when transcribe_with_chirp has
\* returned or raised, no window's temporary file is left.
C17_TempRemoved ==
    /\ pc \in {"done", "escaped"} =>
         /\ temp_dir # "exists"
         /\ \A f \in FileNames : ~OnDisk(f)
    /\ cpc \in ChirpExits => ~tmp_exists

----------------------------------------------------------------------------
(* Claim about summarize_with_gemini, under SpecSummarize *)

\* the calls made so far went to the first models of the list, in list order
InListOrder ==
    /\ Len(tried) <= Len(candidate_models)
    /\ \A i \in 1..Len(tried) : tried[i].model = candidate_models[i]

\* every call before the n-th raised
FailedBefore(n) == \A i \in 1..(n - 1) : tried[i].outcome \in ErrorKinds

\* C14: the models are called in list order; a return carries the text of
\* the first model that succeeded, which is the last one called; the
\* aggregate failure is raised only when every model of the list has been
\* called and has failed, and carries the error of the last model.
C14_FirstSuccessOrAggregate ==
    /\ InListOrder
    /\ FailedBefore(Len(tried))
    /\ mpc = "returned" =>
         /\ Len(tried) >= 1
         /\ tried[Len(tried)].outcome = "ok"
         /\ summary.kind = "returned"
         /\ summary.model = tried[Len(tried)].model
    /\ (mpc = "raised" /\ summary.kind = "RuntimeError") =>
         /\ Len(tried) = Len(candidate_models)
         /\ FailedBefore(Len(tried) + 1)
         /\ summary.last = tried[Len(tried)].outcome

\* every model of the list was called and failed, the first and the last
\* with different errors, and the aggregate failure was raised
C14_Witness ==
    /\ mpc = "raised"
    /\ summary.kind = "RuntimeError"
    /\ tried[1].outcome # tried[Len(tried)].outcome

----------------------------------------------------------------------------
(* Claims about the recognizer calls, under SpecChirp *)

\* C19: at most one recognizer call is in flight; while window idx is being
\* exported, submitted or awaited, every earlier window's call has ended
\* and no later window has been exported or submitted; the lines of
\* all_lines are in window order.
C19_WindowsSequential ==
    /\ inflight <= 1
    /\ (inflight = 1) <=> (cpc = "await")
    /\ tmp_exists => cpc = "export"
    /\ cpc \in {"export", "recognize", "await"} =>
         /\ Len(outcomes) = idx
         /\ \A k \in 1..Len(calls) :
              calls[k] = IF k <= idx \/ (k = idx + 1 /\ cpc = "await") THEN 1 ELSE 0
    /\ \A k \in 1..Len(outcomes) : outcomes[k].win = k - 1
    /\ \A k \in 1..(Len(all_lines) - 1) : all_lines[k].win <= all_lines[k + 1].win

\* three or more windows, the second failed, text from the first and the
\* third, the call has returned
C19_Witness ==
    /\ cpc = "returned"
    /\ Len(chunks) >= 3
    /\ outcomes[2].failed
    /\ \E k \in 1..Len(all_lines) : all_lines[k].kind = "text" /\ all_lines[k].win = 0
    /\ \E k \in 1..Len(all_lines) : all_lines[k].kind = "text" /\ all_lines[k].win = 2

\* C20: a window whose recognizer call is in flight is never stuck: the
\* call returns, raises or is cut off, so transcribe_with_chirp can take a
\* further step.
C20_CallNeverHangs ==
    cpc = "await" => ENABLED NextChirp

----------------------------------------------------------------------------
(* Claims about the progress messages and the download, under SpecAudio *)

\* C21: no edit and no delete is ever addressed to a progress message
\* (conversion, transcription or summary status) that an earlier call of the
\* same request has deleted.
C21_NoCallOnDeletedStatus ==
    \A k \in 1..Len(msgLog) : ~TargetGone(k)

\* the download failed: no tier ran, nothing was written, sent or transcribed
NothingAfterDownloadFailure ==
    /\ \A f \in FileNames : ~Exists(disk[f])
    /\ handed = <<>>
    /\ ~tier3 /\ ~mp3_sent
    /\ backend = "none" /\ transInput = NoFile
    /\ texts = <<>>
    /\ transcription_status = "none" /\ summary_status = "none"

\* the first logged call is the edit of the conversion status to the
\* 'too large' hint if the error mentions 413 or "too large", and to the
\* generic download-failed text otherwise
NoticeFirst ==
    /\ Len(msgLog) >= 1
    /\ msgLog[1].handle = "status" /\ msgLog[1].op = "edit"
    /\ (download_error.has413 \/ download_error.too_large)
         => msgLog[1].text = "too_large"
    /\ ~(download_error.has413 \/ download_error.too_large)
         => msgLog[1].text = "download_failed"

\* C24 as stated: a request whose download failed ends after exactly one
\* edit of the status message, with nothing else done.
C24_OneEditAfterDownloadFailure ==
    (pc = "done" /\ download_error.raised) =>
        /\ NoticeFirst
        /\ Len(msgLog) = 1
        /\ NothingAfterDownloadFailure

\* C24, amended: a request whose download failed ends with nothing encoded,
\* sent or transcribed, after one edit of the status message to the notice
\* that fits the error -- and, only if that edit itself raised, one more
\* edit of the status message, to the request-level error text.
C24_OneEditUnlessItRaises ==
    (pc = "done" /\ download_error.raised) =>
        /\ NoticeFirst
        /\ NothingAfterDownloadFailure
        /\ IF msgLog[1].ok
             THEN Len(msgLog) = 1 /\ ~requestError
             ELSE /\ Len(msgLog) = 2
                  /\ requestError
                  /\ msgLog[2].handle = "status" /\ msgLog[2].op = "edit"
                  /\ msgLog[2].text = "error"

\* the error says "Too Large" but not 413, the edit to the hint raised, the
\* request-level handler edited once more, the request is over
C24_Witness ==
    /\ pc = "done"
    /\ download_error = DownloadError(FALSE, TRUE)
    /\ Len(msgLog) = 2
    /\ msgLog[1].text = "too_large" /\ ~msgLog[1].ok
    /\ msgLog[2].text = "error"

----------------------------------------------------------------------------
(* Claims about transcribe_with_gemini_files, under SpecGemini *)

GeminiExits == {"returned", "raised"}

\* C22: when transcribe_with_gemini_files has returned or raised after a
\* successful upload, genai.delete_file has been called for the uploaded
\* file.
C22_UploadedFileDeleted ==
    (gpc \in GeminiExits /\ audio_file # "none") => delete_requested

\* the most get_file calls a run can make: one per POLL_SECS up to the
\* timeout, and one more
MaxPollCount == (TIMEOUT_SECS \div POLL_SECS) + 1

\* C23: the polling loop makes at most MaxPollCount polls; short of its
\* return or raise the function always has a next step; the models are
\* called only on a file reported ACTIVE; and after a successful upload,
\* with every get_file returning, the function ends with a transcript or
\* with the timeout, the processing-failed or the all-models-failed error.
C23_PollingTerminates ==
    /\ polls <= MaxPollCount
    /\ elapsed <= TIMEOUT_SECS + POLL_SECS + TIMEOUT_SECS
    /\ gpc \notin (GeminiExits \cup {"idle"}) => ENABLED NextGemini
    /\ (gpc \in {"models", "cleanup"} \/ transcription # "none")
         => audio_file = "ACTIVE"
    /\ gpc = "returned" =>
         /\ transcription # "none"
         /\ gem_result = GemReturned(transcription)
    /\ (gpc = "raised" /\ audio_file # "none" /\ gem_result.kind # "GetFileError")
         => /\ gem_result.kind \in {"TimeoutError", "ProcessingFailed", "AllModelsFailed"}
            /\ gem_result.kind = "TimeoutError"
                 => (audio_file = "PROCESSING" /\ elapsed > TIMEOUT_SECS)
            /\ gem_result.kind = "ProcessingFailed"
                 => audio_file \notin {"PROCESSING", "ACTIVE"}
            /\ gem_result.kind = "AllModelsFailed"
                 => (transcription = "none" /\ gem_idx > Len(transcription_models))

\* the service reported PROCESSING at every one of the MaxPollCount polls,
\* each answered at once, and the timeout was raised
C23_Witness ==
    /\ gpc = "raised"
    /\ gem_result.kind = "TimeoutError"
    /\ polls = MaxPollCount
    /\ elapsed = MaxPollCount * POLL_SECS

====
